---------------------------- MODULE Spec2Model ----------------------------
(***************************************************************************)
(* The AccessibilityScanner component and its scan-result aggregation.     *)
(*                                                                         *)
(* The repository holds two revisions of the paged component: the current  *)
(* one (src/src/components/AccessibilityScanner.tsx, lines 1-881), whose   *)
(* domain-wide scan generates its pages from templates and Math.random(),  *)
(* and an earlier one (src/unnamed/part_000), whose domain-wide scan       *)
(* returns five fixed pages.  The variable revision says which one runs.   *)
(* The unpaged component that follows in the same file (lines 883-1199)    *)
(* has the same handlers over a flat result and is not modelled.           *)
(*                                                                         *)
(* Text is a sequence of tokens: every "/" and ":" is a token of its own   *)
(* (they are what URL parsing and the two regular expressions look at),    *)
(* any other run of characters is one token.                               *)
(*                                                                         *)
(* A PageResult keeps url, title, issues, passed, failed and warnings; an  *)
(* issue keeps type and code.  loadTime, statusCode, timestamp,            *)
(* scanDuration and an issue's message, selector and context are read by   *)
(* the rendering only and are left out.                                    *)
(***************************************************************************)
EXTENDS Integers, Sequences, FiniteSets, TLC

VARIABLES
    revision,                \* which revision of the component is mounted
    url,                     \* useState("")            (line 63)
    isScanning,              \* useState(false)         (line 64)
    scanResult,              \* useState(null)          (line 65)
    scanFullDomain,          \* useState(false)         (line 66)
    accessibilityStandards,  \* useState({...})         (line 67)
    timers,                  \* pending setTimeout callbacks, each with its closure
    toast,                   \* the toast raised by the latest handler, if any
    aggPages,                \* aggregation harness: the page sequence given
    aggResult,               \* aggregation harness: the ScanResult built from it
    aggBaseline,             \* aggregation harness: the ScanResult of the first order
    fixIssue,                \* remediation lookup: the issue handed to getFixExample
    fixExample,              \* remediation lookup: what getFixExample returned, if called
    resetPending             \* history: resetScan has run, and no url that handleScan
                             \* accepts has been entered since

vars == <<revision, url, isScanning, scanResult, scanFullDomain,
          accessibilityStandards, timers, toast, aggPages, aggResult, aggBaseline,
          fixIssue, fixExample, resetPending>>

uiVars == <<revision, url, isScanning, scanResult, scanFullDomain,
            accessibilityStandards, timers, toast, resetPending>>

aggVars == <<aggPages, aggResult, aggBaseline>>

fixVars == <<fixIssue, fixExample>>

---------------------------------------------------------------------------
(* Bounds of the model *)

\* The domain-wide scan of the current revision maps the first PageLimit
\* templates (the code takes all 60).
PageLimit == 2

\* The user toggles only the first MaxToggleKeys of the five standards.
MaxToggleKeys == 2

\* The aggregation harness takes page sequences of at most this length.
MaxAggPages == 3

\* Math.random() returns d/100 for a d of this set.
RandomDraws == {0, 45, 99}

---------------------------------------------------------------------------
(* Values *)

Null == [null |-> TRUE]

\* 0/0 is NaN and Math.round(NaN) is NaN.  No score is negative, so -1 is
\* free to stand for it.
NaN == -1

NoToast == "none"

Revisions == {"generated", "fixture"}

StandardKeys == <<"wcag21", "wcag22", "section508", "ada", "en301549">>

\* A rule code is a success-criterion stem, a dot and a technique.
RuleCode(stem, technique) == stem \o "." \o technique

H37 == RuleCode("WCAG2AA.Principle1.Guideline1_1.1_1_1", "H37")
H25 == RuleCode("WCAG2AA.Principle2.Guideline2_4.2_4_2", "H25.1.NoTitleEl")
H43 == RuleCode("WCAG2AA.Principle1.Guideline1_3.1_3_1", "H43.IncorrectAttr")
H91 == RuleCode("WCAG2AA.Principle4.Guideline4_1.4_1_2", "H91.Button.Name")
G18 == RuleCode("WCAG2AA.Principle1.Guideline1_4.1_4_3", "G18.Fail")

Issue(t, c) == [type |-> t, code |-> c]

---------------------------------------------------------------------------
(* URLs *)

\* What the user can have in the input field.
UrlInputs ==
    { <<>>,
      <<"example.com">>,
      <<"https", ":", "/", "/">>,
      <<"https", ":", "/", "/", "example.com">>,
      <<"https", ":", "/", "/", "example.com", "/">> }

SchemeTokens == {"https", "mailto"}
SpecialSchemes == {"https"}

RECURSIVE StripLeadingSlashes(_)
StripLeadingSlashes(s) ==
    IF s # <<>> /\ Head(s) = "/" THEN StripLeadingSlashes(Tail(s)) ELSE s

\* new URL(url) without a base: the input must start with a scheme and a
\* colon, and a special scheme needs a host after its slashes.
ParsesAsURL(u) ==
    /\ Len(u) >= 2
    /\ u[1] \in SchemeTokens
    /\ u[2] = ":"
    /\ u[1] \in SpecialSchemes =>
          LET rest == StripLeadingSlashes(SubSeq(u, 3, Len(u)))
          IN  rest # <<>> /\ rest[1] \notin {"/", ":"}

\* .replace(/\/+$/, '')
RECURSIVE StripTrailingSlashes(_)
StripTrailingSlashes(s) ==
    IF s # <<>> /\ s[Len(s)] = "/"
    THEN StripTrailingSlashes(SubSeq(s, 1, Len(s) - 1))
    ELSE s

\* .replace(/\/{2,}/g, '/')
RECURSIVE CollapseSlashes(_)
CollapseSlashes(s) ==
    IF s = <<>> THEN <<>>
    ELSE IF Head(s) = "/"
         THEN <<"/">> \o CollapseSlashes(StripLeadingSlashes(Tail(s)))
         ELSE <<Head(s)>> \o CollapseSlashes(Tail(s))

BaseUrl(u) == CollapseSlashes(StripTrailingSlashes(u))

---------------------------------------------------------------------------
(* The pages of a scan *)

\* An errorRate is in ten-thousandths: 0.1 is 1000.
pageTemplates ==
    <<
      [path |-> <<>>, title |-> "Home Page", errorRate |-> 1000],
      [path |-> <<"/", "about">>, title |-> "About Us", errorRate |-> 500],
      [path |-> <<"/", "contact">>, title |-> "Contact Us", errorRate |-> 1500],
      [path |-> <<"/", "products">>, title |-> "Products", errorRate |-> 800],
      [path |-> <<"/", "services">>, title |-> "Services", errorRate |-> 600],
      [path |-> <<"/", "blog">>, title |-> "Blog", errorRate |-> 200],
      [path |-> <<"/", "news">>, title |-> "News", errorRate |-> 300],
      [path |-> <<"/", "careers">>, title |-> "Careers", errorRate |-> 700],
      [path |-> <<"/", "support">>, title |-> "Support", errorRate |-> 1200],
      [path |-> <<"/", "privacy">>, title |-> "Privacy Policy", errorRate |-> 400],
      [path |-> <<"/", "terms">>, title |-> "Terms of Service", errorRate |-> 400],
      [path |-> <<"/", "faq">>, title |-> "FAQ", errorRate |-> 900],
      [path |-> <<"/", "team">>, title |-> "Our Team", errorRate |-> 600],
      [path |-> <<"/", "pricing">>, title |-> "Pricing", errorRate |-> 800],
      [path |-> <<"/", "portfolio">>, title |-> "Portfolio", errorRate |-> 500],
      [path |-> <<"/", "testimonials">>, title |-> "Testimonials", errorRate |-> 300],
      [path |-> <<"/", "login">>, title |-> "Login", errorRate |-> 1100],
      [path |-> <<"/", "register">>, title |-> "Register", errorRate |-> 1300],
      [path |-> <<"/", "dashboard">>, title |-> "Dashboard", errorRate |-> 700],
      [path |-> <<"/", "profile">>, title |-> "User Profile", errorRate |-> 600],
      [path |-> <<"/", "settings">>, title |-> "Settings", errorRate |-> 800],
      [path |-> <<"/", "help">>, title |-> "Help Center", errorRate |-> 500],
      [path |-> <<"/", "downloads">>, title |-> "Downloads", errorRate |-> 400],
      [path |-> <<"/", "gallery">>, title |-> "Gallery", errorRate |-> 300],
      [path |-> <<"/", "events">>, title |-> "Events", errorRate |-> 600],
      [path |-> <<"/", "locations">>, title |-> "Locations", errorRate |-> 500],
      [path |-> <<"/", "partners">>, title |-> "Partners", errorRate |-> 400],
      [path |-> <<"/", "investors">>, title |-> "Investors", errorRate |-> 300],
      [path |-> <<"/", "press">>, title |-> "Press Releases", errorRate |-> 200],
      [path |-> <<"/", "sitemap">>, title |-> "Sitemap", errorRate |-> 100]
    >>

\* The twenty blog posts and ten product pages; dRate is the draw of the
\* template's own Math.random().
additionalPages(dRate) ==
    [i \in 1..30 |->
        IF i <= 20
        THEN [path |-> <<"/", "blog", "/", "post-" \o ToString(i)>>,
              title |-> "Blog Post " \o ToString(i),
              errorRate |-> 200 + 4 * dRate]
        ELSE [path |-> <<"/", "products", "/", "product-" \o ToString(i - 20)>>,
              title |-> "Product " \o ToString(i - 20),
              errorRate |-> 500 + 8 * dRate]]

\* [...pageTemplates, ...additionalPages][index]
allPageTemplates(index, dRate) ==
    IF index <= Len(pageTemplates)
    THEN pageTemplates[index]
    ELSE additionalPages(dRate)[index - Len(pageTemplates)]

errorTypes == <<Issue("error", H37), Issue("error", H91), Issue("error", H43)>>

\* A warning list whose contrast entry carries a rule that getFixExample
\* has no case for.
warningTypes_UnhandledRule ==
    <<Issue("warning", H25),
      Issue("warning", RuleCode("WCAG2AA.Principle1.Guideline1_4.1_4_3", "G145.Fail"))>>

warningTypes == <<Issue("warning", H25), Issue("warning", G18)>>

\* A filter that forgets the type and counts every issue.
CountType_EveryIssue(issues, t) == Len(issues)

\* issues.filter(i => i.type === t).length
RECURSIVE CountType(_, _)
CountType(issues, t) ==
    IF issues = <<>> THEN 0
    ELSE (IF Head(issues).type = t THEN 1 ELSE 0) + CountType(Tail(issues), t)

\* Math.floor(Math.random() * 20): the draw without its offset of 25.
PassedDraw_NoOffset(d) == (d * 20) \div 100

\* Math.floor(Math.random() * 20) + 30
PassedDraw_From30(d) == ((d * 20) \div 100) + 30

\* Math.floor(Math.random() * 20) + 25
PassedDraw(d) == ((d * 20) \div 100) + 25

\* One page of the generated domain-wide scan, from the draws of its calls
\* of Math.random(): dErr and dWarn decide whether the page has an error and
\* a warning, dErrType and dWarnType pick them, dPassed gives passed.
MockPage(baseUrl, template, dErr, dWarn, dErrType, dWarnType, dPassed) ==
    LET hasErrors == dErr * 100 < template.errorRate
        hasWarnings == dWarn < 30
        issues ==
            (IF hasErrors
             THEN <<errorTypes[((dErrType * Len(errorTypes)) \div 100) + 1]>>
             ELSE <<>>)
            \o
            (IF hasWarnings
             THEN <<warningTypes[((dWarnType * Len(warningTypes)) \div 100) + 1]>>
             ELSE <<>>)
    IN  [url |-> baseUrl \o template.path,
         title |-> template.title,
         issues |-> issues,
         passed |-> PassedDraw(dPassed),
         failed |-> CountType(issues, "error"),
         warnings |-> CountType(issues, "warning")]

\* Every page the template at index can turn into.
PageOutcomes(baseUrl, index) ==
    { MockPage(baseUrl, allPageTemplates(index, dRate), dErr, dWarn, dErrType, dWarnType, dPassed) :
        dRate \in (IF index <= Len(pageTemplates) THEN {0} ELSE RandomDraws),
        dErr \in RandomDraws, dWarn \in RandomDraws, dErrType \in RandomDraws,
        dWarnType \in RandomDraws, dPassed \in RandomDraws }

\* Every value of mockPages: allPageTemplates.slice(0, n).map(...)
RECURSIVE MockPagesOutcomes(_, _)
MockPagesOutcomes(baseUrl, n) ==
    IF n = 0 THEN { <<>> }
    ELSE { Append(pages, page) :
             pages \in MockPagesOutcomes(baseUrl, n - 1),
             page \in PageOutcomes(baseUrl, n) }

\* The five pages of the earlier revision's domain-wide scan.
FixturePages(u) ==
    << [url |-> u, title |-> "Home Page",
        issues |-> <<Issue("error", H37)>>,
        passed |-> 45, failed |-> 1, warnings |-> 0],
       [url |-> BaseUrl(u) \o <<"/", "about">>, title |-> "About Us",
        issues |-> <<Issue("warning", H25)>>,
        passed |-> 32, failed |-> 0, warnings |-> 1],
       [url |-> BaseUrl(u) \o <<"/", "products">>, title |-> "Products",
        issues |-> <<Issue("error", H43)>>,
        passed |-> 28, failed |-> 1, warnings |-> 0],
       [url |-> BaseUrl(u) \o <<"/", "contact">>, title |-> "Contact Us",
        issues |-> <<Issue("error", H91), Issue("warning", G18)>>,
        passed |-> 25, failed |-> 1, warnings |-> 1],
       [url |-> BaseUrl(u) \o <<"/", "blog">>, title |-> "Blog",
        issues |-> <<>>,
        passed |-> 38, failed |-> 0, warnings |-> 0] >>

\* The page of a single-page scan (the same in both revisions).
SinglePage(u) ==
    [url |-> u, title |-> "Single Page",
     issues |-> <<Issue("error", H37), Issue("warning", H25)>>,
     passed |-> 28, failed |-> 1, warnings |-> 1]

---------------------------------------------------------------------------
(* Aggregation *)

\* A reduce whose callback returns page.passed and drops the sum.
SumPassed_LastPageOnly(pages) ==
    IF pages = <<>> THEN 0 ELSE pages[Len(pages)].passed

RECURSIVE SumPassed(_)
SumPassed(pages) ==
    IF pages = <<>> THEN 0 ELSE Head(pages).passed + SumPassed(Tail(pages))

\* The reduce of totalFailed copied from totalWarnings with its field unchanged.
RECURSIVE SumFailed_AddsWarnings(_)
SumFailed_AddsWarnings(pages) ==
    IF pages = <<>> THEN 0
    ELSE Head(pages).warnings + SumFailed_AddsWarnings(Tail(pages))

RECURSIVE SumFailed(_)
SumFailed(pages) ==
    IF pages = <<>> THEN 0 ELSE Head(pages).failed + SumFailed(Tail(pages))

RECURSIVE SumWarnings(_)
SumWarnings(pages) ==
    IF pages = <<>> THEN 0 ELSE Head(pages).warnings + SumWarnings(Tail(pages))

\* The pairs <<passed, failed>> with passed + failed < 200 for which the
\* double (passed / (passed + failed)) * 100 lies just below a half that the
\* exact quotient hits: 23/40 = 0.575, and 0.575 * 100 is 57.49999999999999.
DoubleBelowHalf == { <<23, 17>>, <<46, 34>>, <<69, 51>>, <<92, 68>> }

\* Math.round(x): the integer nearest to x, a half going up.
MathRound(passed, failed) ==
    LET n == passed + failed
        halfUp == (200 * passed + n) \div (2 * n)
    IN  IF <<passed, failed>> \in DoubleBelowHalf THEN halfUp - 1 ELSE halfUp

\* Math.floor in place of Math.round.
ComplianceScore_Floor(passed, failed) ==
    IF passed + failed = 0 THEN NaN ELSE (100 * passed) \div (passed + failed)

\* Math.round((passed / (passed + failed)) * 100)
ComplianceScore(passed, failed) ==
    IF passed + failed = 0 THEN NaN ELSE MathRound(passed, failed)

\* A page score over every check of the page, warnings included.
PageScore_CountsWarnings(page) ==
    IF page.passed + page.failed + page.warnings = 0 THEN NaN
    ELSE (200 * page.passed + (page.passed + page.failed + page.warnings))
            \div (2 * (page.passed + page.failed + page.warnings))

\* const pageScore = Math.round((page.passed / (page.passed + page.failed)) * 100)
PageScore(page) ==
    IF page.passed + page.failed = 0 THEN NaN ELSE MathRound(page.passed, page.failed)

\* totalPages taken from the template list, not from the pages scanned.
DomainResult_CountsAllTemplates(u, mockPages) ==
    [url |-> u,
     totalPages |-> Len(pageTemplates) + 30,
     pagesScanned |-> mockPages,
     totalPassed |-> SumPassed(mockPages),
     totalFailed |-> SumFailed(mockPages),
     totalWarnings |-> SumWarnings(mockPages),
     complianceScore |-> ComplianceScore(SumPassed(mockPages), SumFailed(mockPages))]

\* The domain-wide mockResult.
DomainResult(u, mockPages) ==
    [url |-> u,
     totalPages |-> Len(mockPages),
     pagesScanned |-> mockPages,
     totalPassed |-> SumPassed(mockPages),
     totalFailed |-> SumFailed(mockPages),
     totalWarnings |-> SumWarnings(mockPages),
     complianceScore |-> ComplianceScore(SumPassed(mockPages), SumFailed(mockPages))]

\* The single-page mockResult.
SingleResult(u, singlePage) ==
    [url |-> u,
     totalPages |-> 1,
     pagesScanned |-> <<singlePage>>,
     totalPassed |-> singlePage.passed,
     totalFailed |-> singlePage.failed,
     totalWarnings |-> singlePage.warnings,
     complianceScore |-> ComplianceScore(singlePage.passed, singlePage.failed)]

---------------------------------------------------------------------------
(* The component *)

Init ==
    /\ revision \in Revisions
    /\ url = <<>>
    /\ isScanning = FALSE
    /\ scanResult = Null
    /\ scanFullDomain = FALSE
    /\ accessibilityStandards =
          [k \in {"wcag21", "wcag22", "section508", "ada", "en301549"} |-> k = "wcag21"]
    /\ timers = <<>>
    /\ toast = NoToast
    /\ aggPages = <<>>
    /\ aggResult = Null
    /\ aggBaseline = Null
    /\ fixIssue = Null
    /\ fixExample = <<>>
    /\ resetPending = FALSE

\* The form rendered next to the report as well.
FormRendered_Always == TRUE

\* if (scanResult) { return <the report> } : the form is rendered only
\* without a result, the report only with one.
FormRendered == scanResult = Null

\* A URL input without its disabled attribute.
UrlInputEnabled_Always == TRUE

\* disabled={isScanning} on the URL input
UrlInputEnabled == ~isScanning

\* disabled={isScanning} on the scan-mode switch
ScanModeSwitchEnabled == ~isScanning

\* disabled={isScanning} on the switches of the standards
StandardSwitchEnabled == ~isScanning

\* A scan button without its disabled attribute.
ScanButtonEnabled_Always == TRUE

\* disabled={isScanning} on the scan button
ScanButtonEnabled == ~isScanning

\* onChange={(e) => setUrl(e.target.value)}
SetUrl(v) ==
    /\ FormRendered
    /\ UrlInputEnabled
    /\ url' = v
    /\ toast' = NoToast
    /\ resetPending' = (resetPending /\ ~(v # <<>> /\ ParsesAsURL(v)))
    /\ UNCHANGED <<revision, isScanning, scanResult, scanFullDomain,
                   accessibilityStandards, timers, aggVars, fixVars>>

\* onCheckedChange={setScanFullDomain}
SetScanFullDomain ==
    /\ FormRendered
    /\ ScanModeSwitchEnabled
    /\ scanFullDomain' = ~scanFullDomain
    /\ toast' = NoToast
    /\ UNCHANGED <<revision, url, isScanning, scanResult,
                   accessibilityStandards, timers, aggVars, fixVars, resetPending>>

\* setAccessibilityStandards(prev => ({ ...prev, [key]: checked }))
SetAccessibilityStandards(key) ==
    /\ FormRendered
    /\ StandardSwitchEnabled
    /\ accessibilityStandards' =
          [accessibilityStandards EXCEPT ![key] = ~accessibilityStandards[key]]
    /\ toast' = NoToast
    /\ UNCHANGED <<revision, url, isScanning, scanResult, scanFullDomain,
                   timers, aggVars, fixVars, resetPending>>

\* handleScan, first return: if (!url)
HandleScanUrlRequired ==
    /\ FormRendered
    /\ ScanButtonEnabled
    /\ url = <<>>
    /\ toast' = "URL Required"
    /\ UNCHANGED <<revision, url, isScanning, scanResult, scanFullDomain,
                   accessibilityStandards, timers, aggVars, fixVars, resetPending>>

\* A catch block without its return: the toast, then the scan all the same.
HandleScanInvalidUrl_NoReturn ==
    /\ FormRendered
    /\ ScanButtonEnabled
    /\ url # <<>>
    /\ ~ParsesAsURL(url)
    /\ toast' = "Invalid URL"
    /\ isScanning' = TRUE
    /\ timers' = Append(timers, [kind |-> IF scanFullDomain THEN "domain" ELSE "single",
                                 url |-> url])
    /\ UNCHANGED <<revision, url, scanResult, scanFullDomain,
                   accessibilityStandards, aggVars, fixVars, resetPending>>

\* handleScan, second return: new URL(url) throws
HandleScanInvalidUrl ==
    /\ FormRendered
    /\ ScanButtonEnabled
    /\ url # <<>>
    /\ ~ParsesAsURL(url)
    /\ toast' = "Invalid URL"
    /\ UNCHANGED <<revision, url, isScanning, scanResult, scanFullDomain,
                   accessibilityStandards, timers, aggVars, fixVars, resetPending>>

\* The test on scanFullDomain inverted.
TimerOf_Inverted(fullDomain, u) ==
    [kind |-> IF fullDomain THEN "single" ELSE "domain", url |-> u]

\* The closure of the callback handed to setTimeout: the branch taken on
\* scanFullDomain and the url of the render that handled the click.
TimerOf(fullDomain, u) ==
    [kind |-> IF fullDomain THEN "domain" ELSE "single", url |-> u]

\* handleScan without its setTimeout: the scan is never completed.
HandleScanAccepted_NoTimer ==
    /\ FormRendered
    /\ ScanButtonEnabled
    /\ url # <<>>
    /\ ParsesAsURL(url)
    /\ isScanning' = TRUE
    /\ toast' = NoToast
    /\ UNCHANGED <<revision, url, scanResult, scanFullDomain,
                   accessibilityStandards, timers, aggVars, fixVars, resetPending>>

\* handleScan past the validation: setIsScanning(true) and one setTimeout
HandleScanAccepted ==
    /\ FormRendered
    /\ ScanButtonEnabled
    /\ url # <<>>
    /\ ParsesAsURL(url)
    /\ isScanning' = TRUE
    /\ timers' = Append(timers, TimerOf(scanFullDomain, url))
    /\ toast' = NoToast
    /\ UNCHANGED <<revision, url, scanResult, scanFullDomain,
                   accessibilityStandards, aggVars, fixVars, resetPending>>

HandleScan == HandleScanUrlRequired \/ HandleScanInvalidUrl \/ HandleScanAccepted

\* Every mockResult of the generated domain-wide scan, by the url the
\* callback closed over.
GeneratedResults ==
    [u \in UrlInputs |->
        { DomainResult(u, mockPages) :
            mockPages \in MockPagesOutcomes(BaseUrl(u), PageLimit) }]

\* A scan that reports a clean page when no standard is selected.
MockResults_WithoutStandards(t) ==
    IF \A k \in DOMAIN accessibilityStandards : ~accessibilityStandards[k]
    THEN { SingleResult(t.url, [SinglePage(t.url) EXCEPT !.issues = <<>>,
                                                         !.failed = 0,
                                                         !.warnings = 0]) }
    ELSE IF t.kind = "single"
         THEN { SingleResult(t.url, SinglePage(t.url)) }
         ELSE IF revision = "fixture"
              THEN { DomainResult(t.url, FixturePages(t.url)) }
              ELSE GeneratedResults[t.url]

\* Every mockResult the callback of timer t can build.
MockResults(t) ==
    IF t.kind = "single"
    THEN { SingleResult(t.url, SinglePage(t.url)) }
    ELSE IF revision = "fixture"
         THEN { DomainResult(t.url, FixturePages(t.url)) }
         ELSE GeneratedResults[t.url]

CompletionToast(t) ==
    IF t.kind = "single" THEN "Page Scan Complete" ELSE "Domain Scan Complete"

RemoveAt(s, i) == SubSeq(s, 1, i - 1) \o SubSeq(s, i + 1, Len(s))

\* setInterval in place of setTimeout: the callback stays scheduled.
TimerFires_StaysScheduled(i) ==
    /\ i \in 1..Len(timers)
    /\ scanResult' \in MockResults(timers[i])
    /\ isScanning' = FALSE
    /\ toast' = CompletionToast(timers[i])
    /\ UNCHANGED <<revision, url, scanFullDomain, accessibilityStandards, timers, aggVars, fixVars, resetPending>>

\* A callback that forgets setIsScanning(false).
TimerFires_KeepsScanning(i) ==
    /\ i \in 1..Len(timers)
    /\ scanResult' \in MockResults(timers[i])
    /\ timers' = RemoveAt(timers, i)
    /\ toast' = CompletionToast(timers[i])
    /\ UNCHANGED <<revision, url, isScanning, scanFullDomain,
                   accessibilityStandards, aggVars, fixVars, resetPending>>

\* The setTimeout callback: setScanResult(mockResult); setIsScanning(false);
\* toast(...).  React 18 applies the two updates in one render.
TimerFires(i) ==
    /\ i \in 1..Len(timers)
    /\ scanResult' \in MockResults(timers[i])
    /\ isScanning' = FALSE
    /\ timers' = RemoveAt(timers, i)
    /\ toast' = CompletionToast(timers[i])
    /\ UNCHANGED <<revision, url, scanFullDomain, accessibilityStandards, aggVars, fixVars, resetPending>>

\* The report is rendered only with a result; its New Scan button.
ReportRendered == scanResult # Null

\* The badge with its two tests in the other order.
Badge_GoodFirst(score) ==
    IF score >= 70 THEN "Good"
    ELSE IF score >= 90 THEN "Excellent"
    ELSE "Needs Work"

\* scanResult.complianceScore >= 90 ? "Excellent"
\*     : scanResult.complianceScore >= 70 ? "Good" : "Needs Work"
\* (no comparison with NaN is true, so NaN is "Needs Work")
Badge(score) ==
    IF score >= 90 THEN "Excellent"
    ELSE IF score >= 70 THEN "Good"
    ELSE "Needs Work"

\* A resetScan that puts the scan mode back to its default as well.
ResetScan_ResetsMode ==
    /\ ReportRendered
    /\ scanResult' = Null
    /\ url' = <<>>
    /\ scanFullDomain' = FALSE
    /\ toast' = NoToast
    /\ resetPending' = TRUE
    /\ UNCHANGED <<revision, isScanning, accessibilityStandards, timers, aggVars, fixVars>>

\* A resetScan that forgets setUrl(""): the scanned url stays in the input.
ResetScan_KeepsUrl ==
    /\ ReportRendered
    /\ scanResult' = Null
    /\ toast' = NoToast
    /\ resetPending' = TRUE
    /\ UNCHANGED <<revision, url, isScanning, scanFullDomain, accessibilityStandards,
                   timers, aggVars, fixVars>>

\* resetScan: setScanResult(null); setUrl("")
ResetScan ==
    /\ ReportRendered
    /\ scanResult' = Null
    /\ url' = <<>>
    /\ toast' = NoToast
    /\ resetPending' = TRUE
    /\ UNCHANGED <<revision, isScanning, scanFullDomain, accessibilityStandards,
                   timers, aggVars, fixVars>>

Next ==
    \/ \E v \in UrlInputs : SetUrl(v)
    \/ SetScanFullDomain
    \/ \E k \in 1..MaxToggleKeys : SetAccessibilityStandards(StandardKeys[k])
    \/ HandleScan
    \/ \E i \in 1..Len(timers) : TimerFires(i)
    \/ ResetScan

Spec == Init /\ [][Next]_vars

\* The browser runs every timer callback that is due.
FairSpec == Spec /\ WF_vars(\E i \in 1..Len(timers) : TimerFires(i))

---------------------------------------------------------------------------
(* The aggregation on its own: the reduce calls, the score and the two     *)
(* result literals of handleScan applied to page sequences that are given  *)
(* rather than generated.                                                  *)

AggPage(p, f, w) == [passed |-> p, failed |-> f, warnings |-> w]

AggPageSamples ==
    { AggPage(0, 0, 0), AggPage(1, 0, 0), AggPage(0, 1, 2), AggPage(1, 7, 0),
      AggPage(23, 17, 1), AggPage(45, 1, 0), AggPage(32, 0, 1), AggPage(28, 1, 1) }

RECURSIVE SeqsOfLen(_, _)
SeqsOfLen(S, n) ==
    IF n = 0 THEN { <<>> }
    ELSE { Append(s, x) : s \in SeqsOfLen(S, n - 1), x \in S }

AggInputs == UNION { SeqsOfLen(AggPageSamples, n) : n \in 1..MaxAggPages }

InitAgg ==
    /\ revision = "generated"
    /\ url = <<>>
    /\ isScanning = FALSE
    /\ scanResult = Null
    /\ scanFullDomain = FALSE
    /\ accessibilityStandards =
          [k \in {"wcag21", "wcag22", "section508", "ada", "en301549"} |-> k = "wcag21"]
    /\ timers = <<>>
    /\ toast = NoToast
    /\ aggPages \in AggInputs
    /\ aggResult = Null
    /\ aggBaseline = Null
    /\ fixIssue = Null
    /\ fixExample = <<>>
    /\ resetPending = FALSE

\* The domain-wide branch: totals by reduce, then the mockResult.
AggregateDomain ==
    /\ aggResult = Null
    /\ aggResult' = DomainResult(url, aggPages)
    /\ UNCHANGED <<aggPages, aggBaseline, uiVars, fixVars>>

\* The single-page branch: the mockResult of one page.
AggregateSingle ==
    /\ aggResult = Null
    /\ Len(aggPages) = 1
    /\ aggResult' = SingleResult(url, aggPages[1])
    /\ UNCHANGED <<aggPages, aggBaseline, uiVars, fixVars>>

Swap(s, i) == [s EXCEPT ![i] = s[i + 1], ![i + 1] = s[i]]

\* The same pages in another order, aggregated again; aggBaseline keeps the
\* result of the order first given.
ReorderPages(i) ==
    /\ aggResult # Null
    /\ i \in 1..(Len(aggPages) - 1)
    /\ aggPages' = Swap(aggPages, i)
    /\ aggResult' = DomainResult(url, aggPages')
    /\ aggBaseline' = IF aggBaseline = Null THEN aggResult ELSE aggBaseline
    /\ UNCHANGED <<uiVars, fixVars>>

NextAgg ==
    \/ AggregateDomain
    \/ AggregateSingle
    \/ \E i \in 1..(MaxAggPages - 1) : ReorderPages(i)

SpecAgg == InitAgg /\ [][NextAgg]_vars

---------------------------------------------------------------------------
(* The remediation lookup *)

FixH37 == "<img src=\"hero-image.jpg\" alt=\"Hero image showing our main product\" class=\"hero-img\">"
FixH25 == "<html><head><title>About Us - Company Name</title>...</head>"
FixH43 == "<th scope=\"col\">Product Name</th>"
FixH91 == "<button class=\"submit-btn\" aria-label=\"Submit contact form\">Submit</button>"
FixG18 == "<span class=\"text-gray-600\">Secondary text</span> <!-- Use darker color for better contrast -->"
FixFallback == "<!-- Please refer to WCAG guidelines for specific fix recommendations -->"

\* A switch without its default branch: an unknown code falls out of the
\* switch and the lookup returns undefined.
getFixExample_NoDefault(issue) ==
    CASE issue.code = H37 -> FixH37
      [] issue.code = H25 -> FixH25
      [] issue.code = H43 -> FixH43
      [] issue.code = H91 -> FixH91
      [] issue.code = G18 -> FixG18
      [] OTHER -> "undefined"

\* switch (issue.code) { case ...: return ...; default: return ... }
getFixExample(issue) ==
    CASE issue.code = H37 -> FixH37
      [] issue.code = H25 -> FixH25
      [] issue.code = H43 -> FixH43
      [] issue.code = H91 -> FixH91
      [] issue.code = G18 -> FixG18
      [] OTHER -> FixFallback

\* The codes handed to the lookup: every stem with every technique of the
\* five known codes (five of the pairs are the known codes), the empty code
\* and two fragments.
CodeStems ==
    { "WCAG2AA.Principle1.Guideline1_1.1_1_1",
      "WCAG2AA.Principle2.Guideline2_4.2_4_2",
      "WCAG2AA.Principle1.Guideline1_3.1_3_1",
      "WCAG2AA.Principle4.Guideline4_1.4_1_2",
      "WCAG2AA.Principle1.Guideline1_4.1_4_3" }

CodeTechniques ==
    { "H37", "H25.1.NoTitleEl", "H43.IncorrectAttr", "H91.Button.Name", "G18.Fail" }

CodeInputs ==
    { RuleCode(s, q) : s \in CodeStems, q \in CodeTechniques } \cup { "", "H37", "WCAG2AA" }

InitFix ==
    /\ revision = "generated"
    /\ url = <<>>
    /\ isScanning = FALSE
    /\ scanResult = Null
    /\ scanFullDomain = FALSE
    /\ accessibilityStandards =
          [k \in {"wcag21", "wcag22", "section508", "ada", "en301549"} |-> k = "wcag21"]
    /\ timers = <<>>
    /\ toast = NoToast
    /\ aggPages = <<>>
    /\ aggResult = Null
    /\ aggBaseline = Null
    /\ fixIssue \in { Issue(ty, c) : ty \in {"error", "warning"}, c \in CodeInputs }
    /\ fixExample = <<>>
    /\ resetPending = FALSE

\* {getFixExample(issue)} in the report
RenderFixExample ==
    /\ fixExample = <<>>
    /\ resetPending = FALSE
    /\ fixExample' = <<getFixExample(fixIssue)>>
    /\ UNCHANGED <<fixIssue, uiVars, aggVars>>

NextFix == RenderFixExample

SpecFix == InitFix /\ [][NextFix]_vars

---------------------------------------------------------------------------
(* Properties *)

\* The sum of one counter over a page sequence, by position.
RECURSIVE FieldTotal(_, _, _)
FieldTotal(pages, field, n) ==
    IF n = 0 THEN 0 ELSE pages[n][field] + FieldTotal(pages, field, n - 1)

\* score is an integer nearest to 100 * passed / (passed + failed).
IsNearestPercent(score, passed, failed) ==
    LET n == passed + failed
    IN  /\ 2 * (100 * passed - score * n) <= n
        /\ 2 * (score * n - 100 * passed) <= n

\* C1: whenever the totals of an aggregated page sequence have passed +
\* failed > 0, the complianceScore of the ScanResult is the integer nearest
\* to 100 * totalPassed / (totalPassed + totalFailed), in the domain-wide
\* and in the single-page result alike.
C1_ScoreIsRoundedPercentage ==
    (aggResult # Null /\ aggResult.totalPassed + aggResult.totalFailed > 0) =>
        /\ aggResult.totalPassed = FieldTotal(aggPages, "passed", Len(aggPages))
        /\ aggResult.totalFailed = FieldTotal(aggPages, "failed", Len(aggPages))
        /\ IsNearestPercent(aggResult.complianceScore,
                            aggResult.totalPassed, aggResult.totalFailed)

\* Two pages whose totals, 77 passed and 1 failed, round up from 98.7 to 99.
C1_Witness ==
    /\ aggResult # Null
    /\ Len(aggPages) = 2
    /\ aggResult.totalPassed = 77
    /\ aggResult.totalFailed = 1
    /\ aggResult.complianceScore = 99

\* C2: in every delivered ScanResult totalPassed, totalFailed and
\* totalWarnings are the sums of passed, failed and warnings over
\* pagesScanned.
C2_TotalsAreSums ==
    scanResult # Null =>
        LET pages == scanResult.pagesScanned
        IN  /\ scanResult.totalPassed = FieldTotal(pages, "passed", Len(pages))
            /\ scanResult.totalFailed = FieldTotal(pages, "failed", Len(pages))
            /\ scanResult.totalWarnings = FieldTotal(pages, "warnings", Len(pages))

\* A generated domain-wide result in which one page has a warning and no
\* error and another has an error.
C2_Witness ==
    /\ scanResult # Null
    /\ revision = "generated"
    /\ Len(scanResult.pagesScanned) >= 2
    /\ \E i, j \in 1..Len(scanResult.pagesScanned) :
          /\ scanResult.pagesScanned[i].failed = 0
          /\ scanResult.pagesScanned[i].warnings = 1
          /\ scanResult.pagesScanned[j].failed = 1

\* C3: aggregating the same pages in another order gives the same
\* totalPassed, totalFailed, totalWarnings and complianceScore.
C3_OrderIndependent ==
    aggBaseline # Null =>
        /\ aggResult.totalPassed = aggBaseline.totalPassed
        /\ aggResult.totalFailed = aggBaseline.totalFailed
        /\ aggResult.totalWarnings = aggBaseline.totalWarnings
        /\ aggResult.complianceScore = aggBaseline.complianceScore

\* Pages with different counters aggregated in an order whose last page is
\* not the one the first order ended with.
C3_Witness ==
    /\ aggBaseline # Null
    /\ Len(aggPages) >= 2
    /\ aggResult.pagesScanned # aggBaseline.pagesScanned
    /\ aggResult.pagesScanned[Len(aggPages)].passed
          # aggBaseline.pagesScanned[Len(aggPages)].passed
    /\ aggResult.totalPassed > 0

\* C4: on every page of every delivered result, failed is the number of its
\* issues of type error and warnings the number of its issues of type
\* warning.
C4_CountersMatchIssues ==
    scanResult # Null =>
        \A i \in 1..Len(scanResult.pagesScanned) :
            LET page == scanResult.pagesScanned[i]
            IN  /\ page.failed =
                      Cardinality({k \in 1..Len(page.issues) : page.issues[k].type = "error"})
                /\ page.warnings =
                      Cardinality({k \in 1..Len(page.issues) : page.issues[k].type = "warning"})

\* A generated page that carries both an error and a warning.
C4_Witness ==
    /\ scanResult # Null
    /\ revision = "generated"
    /\ \E i \in 1..Len(scanResult.pagesScanned) :
          /\ Len(scanResult.pagesScanned[i].issues) = 2
          /\ scanResult.pagesScanned[i].failed = 1
          /\ scanResult.pagesScanned[i].warnings = 1

\* C5: the compliance score of totals that are both zero, and the page score
\* of a page with passed = failed = 0, is a number and never NaN.
C5_ZeroTotalsGiveNumber ==
    aggResult # Null =>
        /\ aggResult.complianceScore # NaN
        /\ \A i \in 1..Len(aggResult.pagesScanned) :
              PageScore(aggResult.pagesScanned[i]) # NaN

\* C6: in every state at most one completion timer is outstanding, and a
\* timer is only ever added in a state where isScanning is false.
C6_AtMostOnePendingScan ==
    /\ [](Len(timers) <= 1)
    /\ [][Len(timers') > Len(timers) => ~isScanning]_vars

\* A scan is pending.
C6_Witness == isScanning /\ Len(timers) = 1

\* C7: whenever isScanning is true, a state with isScanning false and a
\* result present follows, and no step takes a pending timer away without
\* delivering its result.
C7_StartedScanResolves ==
    /\ isScanning ~> (~isScanning /\ scanResult # Null)
    /\ [][Len(timers') < Len(timers) => scanResult' # Null]_vars

\* A domain-wide scan of the generated revision is pending.
C7_Witness ==
    /\ isScanning
    /\ timers # <<>>
    /\ timers[1].kind = "domain"
    /\ revision = "generated"

\* A ScanResult with all its fields, counting the pages it holds.
CompleteResult(r) ==
    /\ DOMAIN r = {"url", "totalPages", "pagesScanned", "totalPassed",
                   "totalFailed", "totalWarnings", "complianceScore"}
    /\ r.totalPages = Len(r.pagesScanned)
    /\ r.totalPages >= 1

\* C8: an accepted handleScan schedules exactly one callback; a callback
\* that runs is gone afterwards and sets scanResult, which was null, to a
\* complete result; scanResult takes a non-null value in no other step.
C8_ExactlyOneResultPerScan ==
    [][ /\ (isScanning' /\ ~isScanning) => Len(timers') = Len(timers) + 1
        /\ (\E i \in 1..Len(timers) : TimerFires(i)) =>
              /\ Len(timers') = Len(timers) - 1
              /\ scanResult = Null
              /\ CompleteResult(scanResult')
        /\ (scanResult' # scanResult /\ scanResult' # Null) =>
              /\ Len(timers') = Len(timers) - 1
              /\ scanResult = Null
              /\ CompleteResult(scanResult')
        /\ Len(timers') # Len(timers) =>
              \/ Len(timers') = Len(timers) + 1 /\ scanResult' = scanResult
              \/ Len(timers') = Len(timers) - 1 /\ scanResult' # Null ]_vars

\* A scan has been delivered and nothing is pending.
C8_Witness ==
    /\ scanResult # Null
    /\ timers = <<>>
    /\ ~isScanning
    /\ toast \in {"Page Scan Complete", "Domain Scan Complete"}

\* C9: a handleScan on an empty url or on one that does not parse changes
\* no state variable, schedules no timer and raises the toast URL Required
\* or Invalid URL.
C9_InvalidUrlRejected ==
    [][ (HandleScan /\ (url = <<>> \/ ~ParsesAsURL(url))) =>
            /\ UNCHANGED <<url, isScanning, scanResult, scanFullDomain,
                           accessibilityStandards, timers>>
            /\ ~isScanning'
            /\ toast' = (IF url = <<>> THEN "URL Required" ELSE "Invalid URL") ]_vars

\* A url without a scheme has just been rejected.
C9_Witness ==
    /\ toast = "Invalid URL"
    /\ url = <<"example.com">>
    /\ ~isScanning
    /\ timers = <<>>
    /\ scanResult = Null

\* The state of the UI.
Phase ==
    IF isScanning
    THEN (IF scanResult = Null THEN "scanning" ELSE "scanning with result")
    ELSE (IF scanResult = Null THEN "idle" ELSE "result")

\* C10: the UI is idle, scanning or showing a result, never scanning with a
\* result present, and it changes state only from idle to scanning by an
\* accepted submit, from scanning to result by a completion and from result
\* to idle by a reset.
C10_ThreeStateUI ==
    /\ [](Phase \in {"idle", "scanning", "result"})
    /\ [][ Phase' # Phase =>
            \/ Phase = "idle" /\ Phase' = "scanning" /\ HandleScanAccepted
            \/ Phase = "scanning" /\ Phase' = "result"
                  /\ \E i \in 1..Len(timers) : TimerFires(i)
            \/ Phase = "result" /\ Phase' = "idle" /\ ResetScan ]_vars

\* The report of a domain-wide scan of the earlier revision is shown.
C10_Witness ==
    /\ Phase = "result"
    /\ revision = "fixture"
    /\ scanResult.totalPages = 5

\* C11: once delivered, scanResult keeps its value in every step but the
\* resetScan that sets it to null, and a scan is only ever started with
\* scanResult null.
C11_ResultReadOnlyUntilReset ==
    [][ /\ scanResult # Null =>
              \/ scanResult' = scanResult
              \/ scanResult' = Null /\ ResetScan
        /\ Len(timers') > Len(timers) => (scanResult = Null /\ scanResult' = Null) ]_vars

\* The report of a single-page scan is shown, with a second standard chosen.
C11_Witness ==
    /\ scanResult # Null
    /\ scanResult.totalPages = 1
    /\ ~scanFullDomain
    /\ accessibilityStandards["wcag22"]

KnownCodes == {H37, H25, H43, H91, G18}

\* C12: getFixExample returns the fallback string for every code that is
\* not one of its five known codes, and one of its six strings for every
\* code.
C12_UnknownCodeGetsFallback ==
    fixExample # <<>> =>
        /\ fixIssue.code \notin KnownCodes => fixExample[1] = FixFallback
        /\ fixExample[1] \in {FixH37, FixH25, FixH43, FixH91, FixG18, FixFallback}

\* The lookup has answered for an unknown code made of a known stem and a
\* known technique.
C12_Witness ==
    /\ fixExample = <<FixFallback>>
    /\ fixIssue.code = RuleCode("WCAG2AA.Principle1.Guideline1_1.1_1_1", "G18.Fail")

\* C13: the compliance score is the half-up rounding of the exact
\* percentage: floor((200 * passed + (passed + failed)) / (2 * (passed + failed))).
C13_ScoreRoundsHalfUp ==
    (aggResult # Null /\ aggResult.totalPassed + aggResult.totalFailed > 0) =>
        LET n == aggResult.totalPassed + aggResult.totalFailed
        IN  aggResult.complianceScore = (200 * aggResult.totalPassed + n) \div (2 * n)

\* C14: the page score of every page is the site-level formula applied to
\* the page's own passed and failed, and the page score of the page of a
\* one-page result is the result's complianceScore.
C14_PageScoreSameFormula ==
    aggResult # Null =>
        \A i \in 1..Len(aggResult.pagesScanned) :
            LET page == aggResult.pagesScanned[i]
            IN  page.passed + page.failed > 0 =>
                    /\ PageScore(page) = ComplianceScore(page.passed, page.failed)
                    /\ Len(aggResult.pagesScanned) = 1 =>
                          PageScore(page) = aggResult.complianceScore

\* The one page with 28 passed, 1 failed and 1 warning has been aggregated.
C14_Witness ==
    /\ aggResult # Null
    /\ aggPages = <<AggPage(28, 1, 1)>>
    /\ PageScore(aggResult.pagesScanned[1]) = 97

\* C15: the pages (passed 45, failed 1) and (passed 32, failed 0) aggregate
\* to totalPassed 77, totalFailed 1 and complianceScore 99.
C15_ExampleTwoPages ==
    (aggResult # Null /\ aggPages = <<AggPage(45, 1, 0), AggPage(32, 0, 1)>>) =>
        /\ aggResult.totalPassed = 77
        /\ aggResult.totalFailed = 1
        /\ aggResult.complianceScore = 99

\* The two pages of the example have been aggregated in the order given.
C15_Witness ==
    /\ aggResult # Null
    /\ aggBaseline = Null
    /\ aggPages = <<AggPage(45, 1, 0), AggPage(32, 0, 1)>>

\* C16: the result a single-page scan delivers has exactly one page, with
\* passed 28, failed 1 and warnings 1, and complianceScore 97.
C16_SinglePageResult ==
    [][ (scanResult = Null /\ scanResult' # Null /\ ~scanFullDomain) =>
            /\ Len(scanResult'.pagesScanned) = 1
            /\ scanResult'.pagesScanned[1].passed = 28
            /\ scanResult'.pagesScanned[1].failed = 1
            /\ scanResult'.pagesScanned[1].warnings = 1
            /\ scanResult'.complianceScore = 97 ]_vars

\* A single-page scan has just been delivered.
C16_Witness ==
    /\ scanResult # Null
    /\ ~scanFullDomain
    /\ toast = "Page Scan Complete"

\* C17: every delivered result holds at least one page, totalPages is the
\* length of pagesScanned, and it is 1 for a single-page scan.
C17_NonEmptyPages ==
    scanResult # Null =>
        /\ Len(scanResult.pagesScanned) >= 1
        /\ scanResult.totalPages = Len(scanResult.pagesScanned)
        /\ ~scanFullDomain => scanResult.totalPages = 1

\* A generated domain-wide result with more than one page.
C17_Witness ==
    /\ scanResult # Null
    /\ scanFullDomain
    /\ revision = "generated"
    /\ Len(scanResult.pagesScanned) > 1

IsPrefix(s, w) == Len(s) <= Len(w) /\ SubSeq(w, 1, Len(s)) = s

\* C18: in a domain-wide result the entered url without its trailing
\* slashes is a prefix of the url of every page.
C18_PagesWithinEnteredDomain ==
    (scanResult # Null /\ scanFullDomain) =>
        \A i \in 1..Len(scanResult.pagesScanned) :
            IsPrefix(StripTrailingSlashes(scanResult.url), scanResult.pagesScanned[i].url)

\* C19: resetScan, the one step that clears a result, sets scanResult to
\* null and url to the empty string and leaves isScanning, scanFullDomain
\* and accessibilityStandards as they are.
C19_ResetFrame ==
    [][ /\ ResetScan =>
              /\ scanResult' = Null
              /\ url' = <<>>
              /\ UNCHANGED <<isScanning, scanFullDomain, accessibilityStandards>>
        /\ (scanResult # Null /\ scanResult' = Null) =>
              /\ url' = <<>>
              /\ UNCHANGED <<isScanning, scanFullDomain, accessibilityStandards>> ]_vars

\* resetScan is about to run from a report reached with the scan mode and
\* the standards changed from their defaults.
C19_Witness ==
    /\ ReportRendered
    /\ scanFullDomain
    /\ accessibilityStandards["wcag22"]
    /\ ~accessibilityStandards["wcag21"]
    /\ url # <<>>

\* C20: every page of a generated domain-wide result has a passed count
\* between 25 and 45.
C20_GeneratedPassedRange ==
    (scanResult # Null /\ scanFullDomain /\ revision = "generated") =>
        \A i \in 1..Len(scanResult.pagesScanned) :
            scanResult.pagesScanned[i].passed \in 25..45

\* A generated result whose pages took the lowest and the highest draw.
C20_Witness ==
    /\ scanResult # Null
    /\ scanFullDomain
    /\ revision = "generated"
    /\ \E i, j \in 1..Len(scanResult.pagesScanned) :
          /\ scanResult.pagesScanned[i].passed = 25
          /\ scanResult.pagesScanned[j].passed = 44

\* C21: in every delivered result totalPassed + totalFailed > 0 and every
\* page has passed + failed > 0, so neither complianceScore nor the score
\* of any page is NaN.
C21_NoDivisionByZero ==
    scanResult # Null =>
        /\ scanResult.totalPassed + scanResult.totalFailed > 0
        /\ scanResult.complianceScore # NaN
        /\ \A i \in 1..Len(scanResult.pagesScanned) :
              /\ scanResult.pagesScanned[i].passed + scanResult.pagesScanned[i].failed > 0
              /\ PageScore(scanResult.pagesScanned[i]) # NaN

\* A generated result whose pages all took the lowest draw of passed and
\* have no error: the smallest denominators a scan produces.
C21_Witness ==
    /\ scanResult # Null
    /\ revision = "generated"
    /\ scanFullDomain
    /\ \A i \in 1..Len(scanResult.pagesScanned) :
          /\ scanResult.pagesScanned[i].passed = 25
          /\ scanResult.pagesScanned[i].failed = 0

\* C22: every completion callback runs with isScanning true and scanResult
\* null, and no callback is pending when resetScan runs, so a completion
\* neither overwrites a result nor arrives after a reset.
C22_NoStaleCompletion ==
    [][ /\ Len(timers') < Len(timers) => (isScanning /\ scanResult = Null)
        /\ (scanResult' # scanResult /\ scanResult' # Null) =>
              (isScanning /\ scanResult = Null)
        /\ (scanResult # Null /\ scanResult' = Null) =>
              (timers = <<>> /\ timers' = <<>>) ]_vars

\* The completion of a domain-wide scan of the earlier revision has run.
C22_Witness ==
    /\ toast = "Domain Scan Complete"
    /\ revision = "fixture"
    /\ scanResult # Null
    /\ ~isScanning
    /\ timers = <<>>

\* C23: while a scan is pending url, scanFullDomain and
\* accessibilityStandards do not change; the url and the branch every
\* pending callback closed over are the url and scanFullDomain of the
\* state, and the delivered result has that url and is of that kind.
C23_InputsFrozenWhilePending ==
    [][ /\ isScanning => UNCHANGED <<url, scanFullDomain, accessibilityStandards>>
        /\ \A i \in 1..Len(timers') :
              /\ timers'[i].url = url'
              /\ timers'[i].kind = (IF scanFullDomain' THEN "domain" ELSE "single")
        /\ (scanResult = Null /\ scanResult' # Null) =>
              /\ scanResult'.url = url
              /\ url' = url
              /\ (scanResult'.pagesScanned[1].title = "Single Page") <=> ~scanFullDomain
              /\ toast' = (IF scanFullDomain THEN "Domain Scan Complete"
                                             ELSE "Page Scan Complete") ]_vars

\* A domain-wide result delivered for a url entered with a trailing slash.
C23_Witness ==
    /\ scanResult # Null
    /\ scanFullDomain
    /\ url = <<"https", ":", "/", "/", "example.com", "/">>
    /\ scanResult.url = url
    /\ scanResult.pagesScanned[1].title = "Home Page"

\* C24: resetScan leaves url empty; a handleScan on that empty url raises
\* URL Required and starts nothing; and no scan starts after a reset before
\* a step has set url to a non-empty value that parses.
C24_ScanAfterResetNeedsUrl ==
    [][ /\ (scanResult # Null /\ scanResult' = Null) => (url' = <<>> /\ resetPending')
        /\ (resetPending /\ url = <<>> /\ HandleScan) =>
              /\ toast' = "URL Required"
              /\ UNCHANGED <<isScanning, timers, scanResult, url>>
        /\ (Len(timers') > Len(timers) \/ (isScanning' /\ ~isScanning)) => ~resetPending
        /\ (resetPending /\ ~resetPending') =>
              (url' # url /\ url' # <<>> /\ ParsesAsURL(url')) ]_vars

\* A handleScan after a reset, with no url entered since, has been rejected.
C24_Witness ==
    /\ resetPending
    /\ url = <<>>
    /\ toast = "URL Required"
    /\ scanResult = Null
    /\ ~isScanning

\* The results a scan of url u can deliver, from the revision, the scan
\* mode and u alone.
ExpectedResults(rev, fullDomain, u) ==
    IF ~fullDomain THEN { SingleResult(u, SinglePage(u)) }
    ELSE IF rev = "fixture" THEN { DomainResult(u, FixturePages(u)) }
    ELSE GeneratedResults[u]

\* Results picked by their random choices: of the generated scan, every
\* page clean with the lowest draw of passed, and with the highest; of the
\* scans without a random choice, the one result.
SampleResults(rev, fullDomain, u) ==
    IF fullDomain /\ rev = "generated"
    THEN { r \in ExpectedResults(rev, fullDomain, u) :
             /\ r.totalFailed = 0
             /\ r.totalWarnings = 0
             /\ r.totalPassed \in {25 * r.totalPages, 44 * r.totalPages} }
    ELSE ExpectedResults(rev, fullDomain, u)

\* C25: whatever the accessibilityStandards toggles, the result delivered
\* is one of the results its url and scan mode give, and a pending scan
\* can deliver the result of the same random choices under every setting
\* of the toggles.
C25_StandardsDoNotInfluenceScan ==
    /\ [][ (scanResult = Null /\ scanResult' # Null) =>
              scanResult' \in ExpectedResults(revision, scanFullDomain, url) ]_vars
    /\ [](timers # <<>> =>
              \A r \in SampleResults(revision, scanFullDomain, url) :
                  ENABLED (TimerFires(1) /\ scanResult' = r))

\* A result delivered with wcag21 switched off and wcag22 switched on.
C25_Witness ==
    /\ scanResult # Null
    /\ revision = "generated"
    /\ scanFullDomain
    /\ ~accessibilityStandards["wcag21"]
    /\ accessibilityStandards["wcag22"]
    /\ scanResult \in SampleResults(revision, scanFullDomain, url)

\* C26: the complianceScore of every delivered result is between 96 and
\* 100, and its badge is Excellent.
C26_ScoreAlwaysExcellent ==
    scanResult # Null =>
        /\ scanResult.complianceScore \in 96..100
        /\ Badge(scanResult.complianceScore) = "Excellent"

\* A generated result with the lowest score: every page with the lowest
\* draw of passed and one error.
C26_Witness ==
    /\ scanResult # Null
    /\ revision = "generated"
    /\ scanResult.complianceScore = 96
    /\ Badge(scanResult.complianceScore) = "Excellent"

\* C27: every issue of every delivered result carries one of the five rule
\* codes getFixExample has a case for, and the fix shown for it is not the
\* fallback string.
C27_IssuesHaveKnownCodes ==
    scanResult # Null =>
        \A i \in 1..Len(scanResult.pagesScanned) :
            \A j \in 1..Len(scanResult.pagesScanned[i].issues) :
                /\ scanResult.pagesScanned[i].issues[j].code \in KnownCodes
                /\ getFixExample(scanResult.pagesScanned[i].issues[j]) # FixFallback

\* A generated result that holds the two rules no single-page scan reports.
C27_Witness ==
    /\ scanResult # Null
    /\ revision = "generated"
    /\ \E i, k \in 1..Len(scanResult.pagesScanned) :
          /\ \E j \in 1..Len(scanResult.pagesScanned[i].issues) :
                scanResult.pagesScanned[i].issues[j].code = H91
          /\ \E j \in 1..Len(scanResult.pagesScanned[k].issues) :
                scanResult.pagesScanned[k].issues[j].code = G18

=============================================================================
